---- MODULE Spec2Model ----
(***************************************************************************)
(* Model of the conversational-session relay of ai-voice-backend:          *)
(*   - ConversationService   (src/services/conversationService.js)         *)
(*   - AIVoiceServer socket handlers (src/server.js)                       *)
(*   - OpenRouterService sendMessage / streamMessage                       *)
(*                           (src/services/openRouterService.js)           *)
(* Node runs every handler to completion on one thread, so each handler    *)
(* segment between two awaits is one atomic action.                        *)
(***************************************************************************)
EXTENDS Integers, Sequences, FiniteSets, TLC

VARIABLES
    conversations,  \* ConversationService.conversations : id -> conversation object
    now,            \* Date.now()
    lastOp,         \* the store operation that ran last and what it returned
    appended,       \* per id: the messages pushed since the session object was created
    evicted,        \* the ids whose session a delete or a sweep of the store's
                    \* callers removed while it held messages, and that have
                    \* been given no message since
    shutdown,       \* whether the SIGTERM handler has run (server.close() was called)
    cleanupDue,     \* per socket: when the setTimeout of its disconnect handler is due
                    \* (-1: none pending)
    audio,          \* per POST /process request: where its route handler stands
    variant,        \* which of the three OpenRouterService class texts of the file is in force
    sockState,      \* per socket: "none", "connected", "disconnected"
    sockConv,       \* per socket: the conversationId of its connection closure
    req,            \* per chat_message event: where its handleChatMessage call stands
    emits,          \* per socket: the events emitted to it, in order
    justDone,       \* the chat_message whose handler returned in the last step (0: none)
    http,           \* per POST /message request: where its route handler stands
    sPhase,         \* the /stream request: "idle" before it arrives, "refused" by the
                    \* route, or in streamMessage: "requesting", "streaming", then
                    \* "rejected", "ended" or "failed"
    sMessage,       \* the `message` field of the body of the /stream request
    sScript,        \* the record lines the upstream sends on this call
    sPos,           \* how many of them have arrived completely
    sCut,           \* whether a first part of the next one has arrived
    fullResponse,   \* the accumulator of streamMessage
    calls,          \* the callbacks streamMessage has invoked, in order
    isComplete,     \* the flag of the /stream route handler
    resOut,         \* what the route has written to the response, in order
    resEnded,       \* whether the route has called res.end()
    resLate,        \* whether the route has called res.write() after res.end()
    client          \* the caller of the route: "open", "cancelled" (it went away
                    \* while the relay was running) or "left" (it went away later)

storeVars == <<conversations, now, lastOp, appended, evicted>>
chatVars == <<shutdown, cleanupDue, audio, variant, sockState, sockConv, req, emits, justDone, http>>
streamVars == <<sPhase, sMessage, sScript, sPos, sCut, fullResponse, calls,
                isComplete, resOut, resEnded, resLate, client>>

vars == <<storeVars, chatVars, streamVars>>

-----------------------------------------------------------------------------
(* Bounds of the model.                                                    *)

\* maxMessagesPerConversation is 50 and conversationExpiry 30 minutes in the
\* source (conversationService.js lines 5 and 4); the model scales both down
\* so that truncation and expiry happen within a few steps.  Time is counted
\* in units of which conversationExpiry is a multiple.
maxMessagesPerConversation == 2
conversationExpiry == 1
disconnectDelay == 1
MaxTime == 2
MaxAppends == 3

ConvIds == {"c1", "c2"}
\* what callers append: a user text or an assistant text
MessageInputs == {<<"user", <<"a">>>>, <<"assistant", <<"b">>>>}

\* JavaScript values that are not messages
Undefined == <<"undefined">>
TypeError == "<TypeError>"

\* a conversationId that was not supplied (undefined)
NoId == "-"

-----------------------------------------------------------------------------
(* JavaScript helpers                                                      *)

Max(a, b) == IF a > b THEN a ELSE b

\* if (content): undefined and the empty string are falsy
Truthy(content) == content # Undefined /\ content # <<>>

\* Array.prototype.slice(-n): the last n elements (slice(-0) is slice(0), the whole array)
sliceLast(s, n) ==
    IF n = 0 THEN s ELSE SubSeq(s, Max(1, Len(s) - n + 1), Len(s))

\* f with key k removed (Map.prototype.delete)
MapDelete(f, k) == [x \in (DOMAIN f) \ {k} |-> f[x]]

-----------------------------------------------------------------------------
(* ConversationService: each method as a function of the store.            *)
(* Every operator returns [store |-> the map afterwards, result |-> value] *)

\* a wrong read: it sets lastAccessed back to createdAt
getConversationRewinds(convs, id, t) ==
    IF id \in DOMAIN convs
    THEN [store  |-> [convs EXCEPT ![id].lastAccessed = convs[id].createdAt],
          result |-> [kind |-> "array", of |-> id]]
    ELSE [store |-> convs, result |-> [kind |-> "null", of |-> id]]

\* a wrong read: it returns the messages and leaves lastAccessed alone
getConversationNoTouch(convs, id, t) ==
    IF id \in DOMAIN convs
    THEN [store |-> convs, result |-> [kind |-> "array", of |-> id]]
    ELSE [store |-> convs, result |-> [kind |-> "null", of |-> id]]

\* getConversation (lines 25-32): touch and return the messages array, or null
getConversation(convs, id, t) ==
    IF id \in DOMAIN convs
    THEN [store  |-> [convs EXCEPT ![id].lastAccessed = t],
          result |-> [kind |-> "array", of |-> id]]
    ELSE [store |-> convs, result |-> [kind |-> "null", of |-> id]]

\* a wrong create: the new session is stamped with the start of the process
createConversationStaleStamp(convs, id, t) ==
    LET made == IF id \notin DOMAIN convs
                THEN convs @@ (id :> [messages |-> <<>>, createdAt |-> 0, lastAccessed |-> t])
                ELSE convs
    IN getConversation(made, id, t)

\* createConversation (lines 13-23): set if absent, then return getConversation(id)
createConversation(convs, id, t) ==
    LET made == IF id \notin DOMAIN convs
                THEN convs @@ (id :> [messages |-> <<>>, createdAt |-> t, lastAccessed |-> t])
                ELSE convs
    IN getConversation(made, id, t)

\* what a call that threw returns: nothing
NoMessage == [role |-> "-", content |-> <<>>, timestamp |-> 0 - 1, id |-> <<0 - 1, 0 - 1>>]

\* the message object built at lines 41-46
NewMessage(role, content, t, rnd) ==
    [role |-> role, content |-> content, timestamp |-> t, id |-> <<t, rnd>>]

\* a wrong push: unshift puts the new message in front, and the limit then
\* drops from the end
PushAndLimitUnshifts(messages, message) ==
    LET pushed == <<message>> \o messages
    IN IF Len(pushed) > maxMessagesPerConversation
       THEN SubSeq(pushed, 1, maxMessagesPerConversation)
       ELSE pushed

\* a wrong limit: slice(0, max) keeps the oldest messages and drops the new one
PushAndLimitKeepsOldest(messages, message) ==
    LET pushed == Append(messages, message)
    IN IF Len(pushed) > maxMessagesPerConversation
       THEN SubSeq(pushed, 1, maxMessagesPerConversation)
       ELSE pushed

\* lines 48-53: push, then keep the last maxMessagesPerConversation
PushAndLimit(messages, message) ==
    LET pushed == Append(messages, message)
    IN IF Len(pushed) > maxMessagesPerConversation
       THEN sliceLast(pushed, maxMessagesPerConversation)
       ELSE pushed

\* addMessage (lines 34-59).  `conversation` is the map entry when there is
\* one; otherwise it is what createConversation returns, which is the
\* messages ARRAY (line 22 returns getConversation's result).  An array has
\* no `messages` property, so `conversation.messages.push` at line 48 throws.
addMessage(convs, id, role, content, t, rnd) ==
    LET found == id \in DOMAIN convs
        created == createConversation(convs, id, t)
        conversation == IF found THEN [kind |-> "object", of |-> id] ELSE created.result
        store1 == IF found THEN convs ELSE created.store
        message == NewMessage(role, content, t, rnd)
    IN IF conversation.kind = "object"
       THEN [store  |-> [store1 EXCEPT ![id].messages = PushAndLimit(@, message),
                                       ![id].lastAccessed = t],
             threw |-> FALSE, result |-> message]
       ELSE [store |-> store1, threw |-> TRUE, result |-> NoMessage]

\* a wrong delete: it removes nothing
deleteConversationKeeps(convs, id) ==
    [store |-> convs, result |-> (id \in DOMAIN convs)]

\* a wrong delete: it reports true whether or not there was a session
deleteConversationAlwaysTrue(convs, id) ==
    [store |-> MapDelete(convs, id), result |-> TRUE]

\* deleteConversation (lines 61-67)
deleteConversation(convs, id) ==
    [store |-> MapDelete(convs, id), result |-> (id \in DOMAIN convs)]

\* a wrong test: >= expires a session at exactly conversationExpiry
ExpiredAtExpiry(conv, t) == t - conv.lastAccessed >= conversationExpiry

\* the test of line 74
Expired(conv, t) == t - conv.lastAccessed > conversationExpiry

\* a wrong sweep: it stamps the sessions it keeps
cleanupExpiredConversationsTouches(convs, t) ==
    [id \in {i \in DOMAIN convs : ~Expired(convs[i], t)} |->
        [convs[id] EXCEPT !.lastAccessed = t]]

\* cleanupExpiredConversations (lines 69-83)
cleanupExpiredConversations(convs, t) ==
    [id \in {i \in DOMAIN convs : ~Expired(convs[i], t)} |-> convs[id]]

\* the reduce of lines 89-91: the sum of conv.messages.length over the sessions
RECURSIVE reduceLengths(_, _)
reduceLengths(convs, ids) ==
    IF ids = {} THEN 0
    ELSE LET id == CHOOSE i \in ids : TRUE
         IN Len(convs[id].messages) + reduceLengths(convs, ids \ {id})

\* a wrong count: one per session instead of one per message
getStatsCountsSessions(convs) ==
    [store  |-> convs,
     result |-> [totalConversations |-> Cardinality(DOMAIN convs),
                 totalMessages |-> Cardinality(DOMAIN convs)]]

\* getStats (lines 86-94).  memoryUsage is the heap size of the process, which
\* is no part of the store: it is left out of the result.
getStats(convs) ==
    [store  |-> convs,
     result |-> [totalConversations |-> Cardinality(DOMAIN convs),
                 totalMessages |-> reduceLengths(convs, DOMAIN convs)]]

\* the messages of a conversation, or none when the map has no entry
History(convs, id) == IF id \in DOMAIN convs THEN convs[id].messages ELSE <<>>

-----------------------------------------------------------------------------
(* Specification of the store driven directly by its callers.              *)

Sockets == {"s1"}
MaxReqs == 2
ReqIds == 1..MaxReqs

\* a chat_message event that has not arrived yet
NewRequest ==
    [pc |-> "new", sock |-> "-", conv |-> "-", text |-> <<>>, upstream |-> "-",
     reply |-> <<>>, before |-> <<>>, userAppended |-> FALSE, assistantAppended |-> FALSE,
     result |-> "-", prompt |-> <<>>]

\* a POST /message request that has not arrived yet.  posts counts the
\* client.post calls made for it; engine and engineError are what sendMessage
\* gave the route ("success", "failure" for {success: false}, "threw").
NewHttp ==
    [pc |-> "new", text |-> <<>>, upstream |-> "-", status |-> 0, success |-> FALSE,
     code |-> "-", response |-> <<>>, posts |-> 0, engine |-> "-", engineError |-> "-",
     conv |-> NoId, engineConv |-> NoId]

\* a POST /process request that has not arrived yet.  posts counts the
\* client.post calls made for it; result is what processAudio gave the route
\* ("success", "failure" for {success: false}, "threw").
NewAudio ==
    [pc |-> "new", text |-> <<>>, upstream |-> "-", posts |-> 0, result |-> "-",
     response |-> <<>>, status |-> 0]

\* lastOp: the operation, its argument, whether the id had a session before it,
\* whether it threw, what it returned, and what a sweep removed
Op(name, id, existed, threw, returned, removed) ==
    [op |-> name, id |-> id, existed |-> existed, threw |-> threw,
     returned |-> returned, removed |-> removed]

NoOp == Op("none", "-", FALSE, FALSE, "-", {})

\* the state of the parts a specification does not exercise
ChatIdle ==
    /\ shutdown = FALSE
    /\ audio = [r \in ReqIds |-> NewAudio]
    /\ cleanupDue = [s \in Sockets |-> 0 - 1]
    /\ variant = 1
    /\ sockState = [s \in Sockets |-> "none"]
    /\ sockConv = [s \in Sockets |-> "-"]
    /\ req = [r \in ReqIds |-> NewRequest]
    /\ emits = [s \in Sockets |-> <<>>]
    /\ justDone = 0
    /\ http = [r \in ReqIds |-> NewHttp]

StreamIdle ==
    /\ sPhase = "idle"
    /\ sMessage = <<>>
    /\ sScript = <<>>
    /\ sPos = 0
    /\ sCut = FALSE
    /\ fullResponse = <<>>
    /\ calls = <<>>
    /\ isComplete = FALSE
    /\ resOut = <<>>
    /\ resEnded = FALSE
    /\ resLate = FALSE
    /\ client = "open"

StoreInit ==
    /\ conversations = <<>>
    /\ now = 0
    /\ lastOp = NoOp
    /\ appended = [id \in ConvIds |-> <<>>]
    /\ evicted = {}
    /\ ChatIdle
    /\ StreamIdle

RECURSIVE SumLen(_, _)
SumLen(f, S) ==
    IF S = {} THEN 0
    ELSE LET x == CHOOSE y \in S : TRUE IN Len(f[x]) + SumLen(f, S \ {x})

\* the model stops appending after MaxAppends live appended messages
TotalAppended == SumLen(appended, ConvIds)

Create(id) ==
    /\ conversations' = createConversation(conversations, id, now).store
    /\ lastOp' = Op("create", id, id \in DOMAIN conversations, FALSE, "array", {})
    /\ appended' = IF id \in DOMAIN conversations THEN appended
                   ELSE [appended EXCEPT ![id] = <<>>]
    /\ UNCHANGED <<now, evicted, chatVars, streamVars>>

Get(id) ==
    /\ conversations' = getConversation(conversations, id, now).store
    /\ lastOp' = Op("get", id, id \in DOMAIN conversations, FALSE,
                    getConversation(conversations, id, now).result.kind, {})
    /\ UNCHANGED <<now, appended, evicted, chatVars, streamVars>>

Add(id, role, content, rnd) ==
    LET r == addMessage(conversations, id, role, content, now, rnd)
    IN /\ TotalAppended < MaxAppends
       /\ conversations' = r.store
       /\ lastOp' = Op("add", id, id \in DOMAIN conversations, r.threw,
                       IF r.threw THEN TypeError ELSE "message", {})
       /\ appended' = IF r.threw
                      THEN [appended EXCEPT ![id] = <<>>]
                      ELSE [appended EXCEPT ![id] = Append(@, r.result)]
       /\ evicted' = IF r.threw THEN evicted ELSE evicted \ {id}
       /\ UNCHANGED <<now, chatVars, streamVars>>

Delete(id) ==
    /\ conversations' = deleteConversation(conversations, id).store
    /\ lastOp' = Op("delete", id, id \in DOMAIN conversations, FALSE,
                    IF deleteConversation(conversations, id).result THEN "true" ELSE "false",
                    {})
    /\ appended' = [appended EXCEPT ![id] = <<>>]
    /\ evicted' = evicted \cup {i \in {id} : History(conversations, i) # <<>>}
    /\ UNCHANGED <<now, chatVars, streamVars>>

Sweep ==
    /\ conversations' = cleanupExpiredConversations(conversations, now)
    /\ lastOp' = Op("sweep", "-", FALSE, FALSE, Undefined,
                    (DOMAIN conversations) \ DOMAIN cleanupExpiredConversations(conversations, now))
    /\ appended' = [id \in ConvIds |->
                      IF id \in DOMAIN cleanupExpiredConversations(conversations, now)
                      THEN appended[id] ELSE <<>>]
    /\ evicted' = evicted \cup
                    {i \in (DOMAIN conversations)
                              \ DOMAIN cleanupExpiredConversations(conversations, now) :
                        History(conversations, i) # <<>>}
    /\ UNCHANGED <<now, chatVars, streamVars>>

Stats ==
    /\ conversations' = getStats(conversations).store
    /\ lastOp' = Op("stats", "-", FALSE, FALSE, getStats(conversations).result, {})
    /\ UNCHANGED <<now, appended, evicted, chatVars, streamVars>>

Tick ==
    /\ now < MaxTime
    /\ now' = now + 1
    /\ lastOp' = Op("tick", "-", FALSE, FALSE, "-", {})
    /\ UNCHANGED <<conversations, appended, evicted, chatVars, streamVars>>

StoreNext ==
    \/ \E id \in ConvIds : Create(id)
    \/ \E id \in ConvIds : Get(id)
    \/ \E id \in ConvIds, m \in MessageInputs : Add(id, m[1], m[2], 0)
    \/ \E id \in ConvIds : Delete(id)
    \/ Sweep
    \/ Stats
    \/ Tick

SpecStore == StoreInit /\ [][StoreNext]_vars

(* The store together with a caller that uses what it was given.           *)
(* getConversation (line 29), and createConversation through it (line 22), *)
(* return conversation.messages itself, the array the Map entry holds, not *)
(* a copy: the caller that has just received it can change it in place.    *)

\* the caller of the last getConversation/createConversation pushes an
\* element of its own onto the array it was returned (one such element in the
\* store at a time)
CallerPush(id) ==
    /\ lastOp.op \in {"get", "create"}
    /\ lastOp.id = id
    /\ lastOp.returned = "array"
    /\ \A i \in DOMAIN conversations :
          \A k \in 1..Len(conversations[i].messages) :
              conversations[i].messages[k].role # "external"
    /\ conversations' =
          [conversations EXCEPT ![id].messages =
              Append(@, NewMessage("external", <<"pushed">>, now, 0))]
    /\ lastOp' = Op("callerPush", id, TRUE, FALSE, "-", {})
    /\ UNCHANGED <<now, appended, evicted, chatVars, streamVars>>

AliasNext ==
    \/ StoreNext
    \/ \E id \in ConvIds : CallerPush(id)

SpecAlias == StoreInit /\ [][AliasNext]_vars

-----------------------------------------------------------------------------
(* OpenRouterService.sendMessage and the socket handlers of AIVoiceServer. *)

\* a JavaScript property read: a missing property is undefined
GetProp(obj, name) == IF name \in DOMAIN obj THEN obj[name] ELSE Undefined

MaxMessageLength == 4000

\* the `message` field of the chat_message event r: a text of its own (any
\* text, here one per event), the empty string, a number, or a text that is
\* too long
ChatInputs(r) ==
    { [text |-> <<"text", r>>,  isString |-> TRUE,  falsy |-> FALSE, length |-> 2],
      [text |-> <<"empty">>,    isString |-> TRUE,  falsy |-> TRUE,  length |-> 0],
      [text |-> <<"number">>,   isString |-> FALSE, falsy |-> FALSE, length |-> 0],
      [text |-> <<"long">>,     isString |-> TRUE,  falsy |-> FALSE,
       length |-> MaxMessageLength + 1] }

\* how client.post('/chat/completions') settles
Outcomes == {"ok", "401", "429", "timeout", "5xx"}

\* the text the upstream answers call r with: any text, here one per call
ReplyText(r) == <<"reply", r>>

\* the text of the error the catch block of sendMessage builds
\* (lines 107-118, 424-432, 701-710)
ErrorText(v, outcome) ==
    CASE outcome = "401" -> "Invalid Open Router API key"
      [] outcome = "429" -> "Rate limit exceeded for Open Router"
      [] outcome = "timeout" -> "Open Router request timeout"
      [] OTHER -> IF v = 3 THEN "Open Router service error"
                  ELSE "Open Router service error: <message>"

ErrorCode(outcome) ==
    CASE outcome = "401" -> "OPENROUTER_401"
      [] outcome = "429" -> "OPENROUTER_429"
      [] outcome = "timeout" -> "OPENROUTER_504"
      [] OTHER -> "OPENROUTER_500"

\* sendMessage (lines 55-127, 374-434, 651-719): what the call gives its caller
\* once client.post has settled.  All three texts return {success, data} on
\* success; on failure the first and third return {success: false, ...} and
\* the second throws.  reposts is the number of client.post calls the call
\* makes after the first one has settled: the catch block builds an error and
\* calls nothing.
\* generateId (lines 315-317, 595-597, 819-821): `conv_<Date.now()>_<random>`,
\* an id that no caller supplied
generateId == "conv_generated"

\* a wrong sendMessage: it refuses a call that has no conversationId
sendMessageRequiresId(v, outcome, text, conversationId) ==
    IF conversationId = NoId
    THEN [threw |-> FALSE, reposts |-> 0,
          value |-> [success |-> FALSE, error |-> "Conversation ID is required",
                     code |-> "MISSING_CONVERSATION_ID"]]
    ELSE IF outcome = "ok"
    THEN [threw |-> FALSE, reposts |-> 0,
          value |-> [success |-> TRUE,
                     data |-> [response |-> text, conversationId |-> conversationId]]]
    ELSE IF v = 2
    THEN [threw |-> TRUE, reposts |-> 0, value |-> [message |-> ErrorText(v, outcome)]]
    ELSE [threw |-> FALSE, reposts |-> 0,
          value |-> [success |-> FALSE, error |-> ErrorText(v, outcome),
                     code |-> ErrorCode(outcome)]]

\* a wrong sendMessage: it posts once more after a 429
sendMessageRetriesRateLimit(v, outcome, text, conversationId) ==
    IF outcome = "ok"
    THEN [threw |-> FALSE, reposts |-> 0,
          value |-> [success |-> TRUE,
                     data |-> [response |-> text,
                               conversationId |-> IF conversationId # NoId
                                                  THEN conversationId ELSE generateId]]]
    ELSE IF v = 2
    THEN [threw |-> TRUE, reposts |-> IF outcome = "429" THEN 1 ELSE 0,
          value |-> [message |-> ErrorText(v, outcome)]]
    ELSE [threw |-> FALSE, reposts |-> IF outcome = "429" THEN 1 ELSE 0,
          value |-> [success |-> FALSE, error |-> ErrorText(v, outcome),
                     code |-> ErrorCode(outcome)]]

sendMessage(v, outcome, text, conversationId) ==
    IF outcome = "ok"
    THEN [threw |-> FALSE, reposts |-> 0,
          value |-> [success |-> TRUE,
                     data |-> [response |-> text,
                               conversationId |-> IF conversationId # NoId
                                                  THEN conversationId ELSE generateId]]]
    ELSE IF v = 2
    THEN [threw |-> TRUE, reposts |-> 0, value |-> [message |-> ErrorText(v, outcome)]]
    ELSE [threw |-> FALSE, reposts |-> 0,
          value |-> [success |-> FALSE, error |-> ErrorText(v, outcome),
                     code |-> ErrorCode(outcome)]]

\* the `messages` array of the request body that sendMessage posts (lines
\* 57-72, 376-391, 653-668): the system prompt when the caller gave one, then
\* the message.  conversationId is not read for it.
requestMessages(systemPrompt, message) ==
    (IF Truthy(systemPrompt) THEN <<[role |-> "system", content |-> systemPrompt]>> ELSE <<>>)
    \o <<[role |-> "user", content |-> message]>>

\* a wrong emit: the event is sent twice
EmitTwice(s, event, messageId, payload) ==
    [emits EXCEPT ![s] = @ \o << [event |-> event, messageId |-> messageId,
                                  payload |-> payload],
                                 [event |-> event, messageId |-> messageId,
                                  payload |-> payload] >>]

\* socket.emit(event, {messageId, ...})
Emit(s, event, messageId, payload) ==
    [emits EXCEPT ![s] = Append(@, [event |-> event, messageId |-> messageId,
                                    payload |-> payload])]

ChatInit ==
    /\ conversations = <<>>
    /\ now = 0
    /\ lastOp = NoOp
    /\ appended = [id \in ConvIds |-> <<>>]
    /\ evicted = {}
    /\ shutdown = FALSE
    /\ audio = [r \in ReqIds |-> NewAudio]
    /\ cleanupDue = [s \in Sockets |-> 0 - 1]
    /\ variant \in {1, 2, 3}
    /\ sockState = [s \in Sockets |-> "none"]
    /\ sockConv = [s \in Sockets |-> "-"]
    /\ req = [r \in ReqIds |-> NewRequest]
    /\ emits = [s \in Sockets |-> <<>>]
    /\ justDone = 0
    /\ http = [r \in ReqIds |-> NewHttp]
    /\ StreamIdle

\* io.on('connection') (server.js lines 155-167): a new conversationId, created
Connect(s, id) ==
    /\ ~shutdown
    /\ sockState[s] = "none"
    /\ id \notin DOMAIN conversations
    /\ \A t \in Sockets : sockConv[t] # id
    /\ sockState' = [sockState EXCEPT ![s] = "connected"]
    /\ sockConv' = [sockConv EXCEPT ![s] = id]
    /\ conversations' = createConversation(conversations, id, now).store
    /\ emits' = Emit(s, "connected", 0, id)
    /\ justDone' = 0
    /\ UNCHANGED <<now, lastOp, appended, evicted, shutdown, cleanupDue, audio, variant, http, req, streamVars>>

\* socket.on('chat_message') -> handleChatMessage, up to its first await
\* (server.js lines 170-172 and 231-264)
ChatMessage(r, s, m) ==
    /\ req[r].pc = "new"
    /\ \A q \in ReqIds : q < r => req[q].pc # "new"
    /\ sockState[s] = "connected"
    /\ LET conv == sockConv[s]
           base == [req[r] EXCEPT !.sock = s, !.conv = conv, !.text = m.text,
                                  !.before = History(conversations, conv)]
           added == addMessage(conversations, conv, "user", m.text, now, 0)
       IN IF m.falsy \/ ~m.isString
          THEN /\ emits' = Emit(s, "error", 0, "INVALID_MESSAGE_FORMAT")
               /\ req' = [req EXCEPT ![r] = [base EXCEPT !.pc = "done", !.result = "invalid"]]
               /\ justDone' = r
               /\ UNCHANGED conversations
          ELSE IF m.length > MaxMessageLength
          THEN /\ emits' = Emit(s, "error", 0, "MESSAGE_TOO_LONG")
               /\ req' = [req EXCEPT ![r] = [base EXCEPT !.pc = "done", !.result = "invalid"]]
               /\ justDone' = r
               /\ UNCHANGED conversations
          ELSE IF added.threw
          THEN \* line 258 threw: the catch of line 281
               /\ emits' = [emits EXCEPT ![s] = @ \o
                              << [event |-> "processing_start", messageId |-> r, payload |-> "-"],
                                 [event |-> "error", messageId |-> r, payload |-> "AI_SERVICE_ERROR"] >>]
               /\ req' = [req EXCEPT ![r] = [base EXCEPT !.pc = "done", !.result = "error"]]
               /\ conversations' = added.store
               /\ justDone' = r
          ELSE /\ emits' = Emit(s, "processing_start", r, "-")
               /\ req' = [req EXCEPT ![r] =
                            [base EXCEPT !.pc = "awaiting", !.userAppended = TRUE,
                                         !.prompt = requestMessages(Undefined, m.text)]]
               /\ conversations' = added.store
               /\ justDone' = 0
    /\ UNCHANGED <<now, lastOp, appended, evicted, shutdown, cleanupDue, audio, variant, http, sockState, sockConv, streamVars>>

\* client.post settles and handleChatMessage runs to its end
\* (server.js lines 261-289)
UpstreamSettles(r, outcome, text) ==
    /\ req[r].pc = "awaiting"
    /\ LET s == req[r].sock
           conv == req[r].conv
           sent == sendMessage(variant, outcome, text, conv)
           response == GetProp(sent.value, "response")
           added == addMessage(conversations, conv, "assistant", response, now, 0)
           base == [req[r] EXCEPT !.pc = "done", !.upstream = outcome,
                                  !.reply = IF outcome = "ok" THEN text ELSE <<>>]
       IN IF sent.threw \/ added.threw
          THEN /\ emits' = Emit(s, "error", r, "AI_SERVICE_ERROR")
               /\ req' = [req EXCEPT ![r] = [base EXCEPT !.result = "error"]]
               /\ conversations' = IF sent.threw THEN conversations ELSE added.store
          ELSE /\ emits' = Emit(s, "chat_response", r, response)
               /\ req' = [req EXCEPT ![r] = [base EXCEPT !.result = "chat_response",
                                                         !.assistantAppended = TRUE]]
               /\ conversations' = added.store
    /\ justDone' = r
    /\ UNCHANGED <<now, lastOp, appended, evicted, shutdown, cleanupDue, audio, variant, http, sockState, sockConv, streamVars>>

\* the setInterval of the ConversationService constructor (lines 7-8)
ChatSweep ==
    /\ conversations' = cleanupExpiredConversations(conversations, now)
    /\ justDone' = 0
    /\ UNCHANGED <<now, lastOp, appended, evicted, shutdown, cleanupDue, audio, variant, http, sockState, sockConv, req, emits, streamVars>>

ChatTick ==
    /\ now < MaxTime
    /\ now' = now + 1
    /\ justDone' = 0
    /\ UNCHANGED <<conversations, lastOp, appended, evicted, shutdown, cleanupDue, audio, variant, http, sockState,
                   sockConv, req, emits, streamVars>>

\* socket.on('disconnect') (server.js lines 214-220): it deletes nothing, it
\* only schedules the deletion of the socket's conversation
Disconnect(s) ==
    /\ sockState[s] = "connected"
    /\ now + disconnectDelay <= MaxTime
    /\ sockState' = [sockState EXCEPT ![s] = "disconnected"]
    /\ cleanupDue' = [cleanupDue EXCEPT ![s] = now + disconnectDelay]
    /\ justDone' = 0
    /\ UNCHANGED <<storeVars, shutdown, audio, variant, http, sockConv, req, emits,
                   streamVars>>

\* the callback of that setTimeout (lines 217-219).  client.post has a timeout
\* of 30 s and the delay is 300 s: a call that was in flight at the disconnect
\* has settled by the time the callback runs.
CleanupFires(s) ==
    /\ cleanupDue[s] >= 0
    /\ now >= cleanupDue[s]
    /\ \A r \in ReqIds : ~(req[r].pc = "awaiting" /\ req[r].sock = s)
    /\ conversations' = deleteConversation(conversations, sockConv[s]).store
    /\ cleanupDue' = [cleanupDue EXCEPT ![s] = 0 - 1]
    /\ justDone' = 0
    /\ UNCHANGED <<now, lastOp, appended, evicted, shutdown, audio, variant, http, sockState,
                   sockConv, req, emits, streamVars>>

\* process.on('SIGTERM') (server.js lines 402-407): server.close() stops the
\* listening for new connections.  The handle of the setInterval of the
\* ConversationService constructor (line 8) is not kept and nothing clears
\* it: the sweep goes on, and so do the connections that are open.
Sigterm ==
    /\ ~shutdown
    /\ shutdown' = TRUE
    /\ justDone' = 0
    /\ UNCHANGED <<storeVars, cleanupDue, audio, variant, http, sockState, sockConv, req,
                   emits, streamVars>>

ChatNext ==
    \/ \E s \in Sockets, id \in ConvIds : Connect(s, id)
    \/ \E r \in ReqIds, s \in Sockets : \E m \in ChatInputs(r) : ChatMessage(r, s, m)
    \/ \E r \in ReqIds, outcome \in Outcomes : UpstreamSettles(r, outcome, ReplyText(r))
    \/ ChatSweep
    \/ ChatTick
    \/ Sigterm
    \/ \E s \in Sockets : Disconnect(s)
    \/ \E s \in Sockets : CleanupFires(s)

SpecChat == ChatInit /\ [][ChatNext]_vars

\* client.post has `timeout: 30000` (openRouterService.js line 40): every
\* call that was issued settles, with an answer or with a failure, and the
\* event loop then runs the rest of the handler.  Time passes, and a timer
\* that is due is run by the event loop.
SpecChatFair ==
    /\ ChatInit
    /\ [][ChatNext]_vars
    /\ \A r \in ReqIds :
          WF_vars(\E outcome \in Outcomes : UpstreamSettles(r, outcome, ReplyText(r)))
    /\ WF_vars(ChatTick)
    /\ \A s \in Sockets : WF_vars(CleanupFires(s))

-----------------------------------------------------------------------------
(* The POST /message route (src/unnamed/part_001 lines 153-225), the HTTP  *)
(* caller of sendMessage.  It does not use the conversation store.         *)

\* the words of the error texts of sendMessage; the last one is the text
\* `Open Router service error: ${error.message}` with the message of the
\* HTTP client for a 5xx answer, "Request failed with status code 5xx"
Words(text) ==
    CASE text = "Invalid Open Router API key" ->
            <<"Invalid", "Open", "Router", "API", "key">>
      [] text = "Rate limit exceeded for Open Router" ->
            <<"Rate", "limit", "exceeded", "for", "Open", "Router">>
      [] text = "Open Router request timeout" ->
            <<"Open", "Router", "request", "timeout">>
      [] text = "Open Router service error" ->
            <<"Open", "Router", "service", "error">>
      [] OTHER ->
            <<"Open", "Router", "service", "error:", "Request", "failed", "with", "status",
              "code", "5xx">>

\* error.message.includes(needle), on words
includes(text, needle) ==
    \E i \in 0..(Len(Words(text)) - Len(needle)) :
        SubSeq(Words(text), i + 1, i + Len(needle)) = needle

\* the catch block of the route (lines 193-224): statusCode and errorCode
\* chosen by the text of the error
RouteError(message) ==
    IF includes(message, <<"API", "key">>)
    THEN [status |-> 401, code |-> "AUTHENTICATION_ERROR"]
    ELSE IF includes(message, <<"Rate", "limit">>)
    THEN [status |-> 429, code |-> "RATE_LIMIT_ERROR"]
    ELSE IF includes(message, <<"timeout">>)
    THEN [status |-> 504, code |-> "TIMEOUT_ERROR"]
    ELSE IF includes(message, <<"unavailable">>)
    THEN [status |-> 503, code |-> "SERVICE_UNAVAILABLE"]
    ELSE [status |-> 500, code |-> "INTERNAL_ERROR"]

RouteInit ==
    /\ conversations = <<>>
    /\ now = 0
    /\ lastOp = NoOp
    /\ appended = [id \in ConvIds |-> <<>>]
    /\ evicted = {}
    /\ shutdown = FALSE
    /\ audio = [r \in ReqIds |-> NewAudio]
    /\ cleanupDue = [s \in Sockets |-> 0 - 1]
    /\ variant \in {1, 2, 3}
    /\ sockState = [s \in Sockets |-> "none"]
    /\ sockConv = [s \in Sockets |-> "-"]
    /\ req = [r \in ReqIds |-> NewRequest]
    /\ emits = [s \in Sockets |-> <<>>]
    /\ justDone = 0
    /\ http = [r \in ReqIds |-> NewHttp]
    /\ StreamIdle

\* router.post('/message') up to its await (lines 153-180)
PostMessage(r, m, id) ==
    /\ http[r].pc = "new"
    /\ \A q \in ReqIds : q < r => http[q].pc # "new"
    /\ LET base == [http[r] EXCEPT !.text = m.text, !.conv = id]
       IN http' = [http EXCEPT ![r] =
            IF m.falsy \/ ~m.isString
            THEN [base EXCEPT !.pc = "done", !.status = 400, !.code = "INVALID_MESSAGE"]
            ELSE IF m.length > MaxMessageLength
            THEN [base EXCEPT !.pc = "done", !.status = 400, !.code = "MESSAGE_TOO_LONG"]
            ELSE [base EXCEPT !.pc = "awaiting", !.posts = 1]]
    /\ UNCHANGED <<storeVars, shutdown, cleanupDue, audio, variant, sockState, sockConv, req, emits, justDone, streamVars>>

\* sendMessage settles and the route answers (lines 176-224).  The success
\* branch runs whenever sendMessage returned, whatever it returned, and
\* reads response.response from the {success, data} object.
PostMessageSettles(r, outcome, text) ==
    /\ http[r].pc = "awaiting"
    /\ LET sent == sendMessage(variant, outcome, text, http[r].conv)
           base == [http[r] EXCEPT
                      !.engineConv = IF ~sent.threw /\ sent.value.success
                                     THEN sent.value.data.conversationId ELSE NoId,
                      !.pc = "done", !.upstream = outcome,
                      !.posts = @ + sent.reposts,
                      !.engine = IF sent.threw THEN "threw"
                                 ELSE IF sent.value.success THEN "success" ELSE "failure",
                      !.engineError = IF sent.threw THEN sent.value.message
                                      ELSE IF sent.value.success THEN "-"
                                      ELSE sent.value.error]
       IN http' = [http EXCEPT ![r] =
            IF sent.threw
            THEN [base EXCEPT !.status = RouteError(sent.value.message).status,
                              !.code = RouteError(sent.value.message).code]
            ELSE [base EXCEPT !.status = 200, !.success = TRUE,
                              !.response = GetProp(sent.value, "response")]]
    /\ UNCHANGED <<storeVars, shutdown, cleanupDue, audio, variant, sockState, sockConv, req, emits, justDone, streamVars>>

RouteNext ==
    \/ \E r \in ReqIds, id \in ConvIds \cup {NoId} : \E m \in ChatInputs(r) :
          PostMessage(r, m, id)
    \/ \E r \in ReqIds, outcome \in Outcomes : PostMessageSettles(r, outcome, ReplyText(r))

SpecRoute == RouteInit /\ [][RouteNext]_vars

-----------------------------------------------------------------------------
(* The POST /process route (src/unnamed/part_001 lines 55-85) and          *)
(* OpenRouterService.processAudio (lines 207-244 and 508-541; the third    *)
(* class text has no such method).                                         *)

\* the body of a /process request: audioData and sessionId, present or not
AudioInputs == {[audioData |-> a, sessionId |-> s] : a \in BOOLEAN, s \in BOOLEAN}

\* what simulateSpeechToText returns (lines 251-265): a fixed text
Transcription == <<"transcription">>

\* processAudio once sendMessage has settled with `sent`.  The first text
\* (lines 223-243) returns {success: true} whenever sendMessage returned,
\* reading aiResponse.data?.response with a fallback; its catch returns
\* {success: false}.  The second (lines 528-540) reads aiResponse.data.response,
\* which throws on an object without data, and its catch throws.
processAudio(v, sent) ==
    IF v = 1
    THEN IF sent.threw
         THEN [threw |-> FALSE, success |-> FALSE, response |-> <<>>]
         ELSE [threw |-> FALSE, success |-> TRUE,
               response |-> IF "data" \in DOMAIN sent.value
                               /\ Truthy(GetProp(sent.value.data, "response"))
                            THEN sent.value.data.response
                            ELSE <<"No response generated">>]
    ELSE IF sent.threw \/ "data" \notin DOMAIN sent.value
         THEN [threw |-> TRUE, success |-> FALSE, response |-> <<>>]
         ELSE [threw |-> FALSE, success |-> TRUE,
               response |-> GetProp(sent.value.data, "response")]

AudioInit ==
    /\ conversations = <<>>
    /\ now = 0
    /\ lastOp = NoOp
    /\ appended = [id \in ConvIds |-> <<>>]
    /\ evicted = {}
    /\ shutdown = FALSE
    /\ audio = [r \in ReqIds |-> NewAudio]
    /\ cleanupDue = [s \in Sockets |-> 0 - 1]
    /\ variant \in {1, 2, 3}
    /\ sockState = [s \in Sockets |-> "none"]
    /\ sockConv = [s \in Sockets |-> "-"]
    /\ req = [r \in ReqIds |-> NewRequest]
    /\ emits = [s \in Sockets |-> <<>>]
    /\ justDone = 0
    /\ http = [r \in ReqIds |-> NewHttp]
    /\ StreamIdle

\* router.post('/process') up to the first await inside processAudio
\* (part_001 lines 56-69): with the third class text the call of line 69
\* throws a TypeError, which the catch of line 77 answers with 500
PostProcess(r, a) ==
    /\ audio[r].pc = "new"
    /\ \A q \in ReqIds : q < r => audio[q].pc # "new"
    /\ audio' = [audio EXCEPT ![r] =
          IF ~a.audioData \/ ~a.sessionId
          THEN [@ EXCEPT !.pc = "done", !.status = 400]
          ELSE IF variant = 3
          THEN [@ EXCEPT !.pc = "done", !.status = 500, !.result = "threw"]
          ELSE IF variant = 1
          THEN [@ EXCEPT !.pc = "transcribing"]
          ELSE [@ EXCEPT !.pc = "awaiting", !.text = Transcription, !.posts = 1]]
    /\ UNCHANGED <<storeVars, shutdown, cleanupDue, variant, sockState, sockConv, req, emits,
                   justDone, http, streamVars>>

\* simulateSpeechToText resolves and processAudio calls sendMessage
\* (lines 216-222)
Transcribed(r) ==
    /\ audio[r].pc = "transcribing"
    /\ audio' = [audio EXCEPT ![r] =
          [@ EXCEPT !.pc = "awaiting", !.text = Transcription, !.posts = 1]]
    /\ UNCHANGED <<storeVars, shutdown, cleanupDue, variant, sockState, sockConv, req, emits,
                   justDone, http, streamVars>>

\* sendMessage settles, processAudio returns or throws, and the route
\* answers (part_001 lines 71-83)
ProcessSettles(r, outcome, text) ==
    /\ audio[r].pc = "awaiting"
    /\ LET sent == sendMessage(variant, outcome, text, NoId)
           got == processAudio(variant, sent)
       IN audio' = [audio EXCEPT ![r] =
            [@ EXCEPT !.pc = "done", !.upstream = outcome,
                      !.posts = @ + sent.reposts,
                      !.result = IF got.threw THEN "threw"
                                 ELSE IF got.success THEN "success" ELSE "failure",
                      !.response = got.response,
                      !.status = IF ~got.threw /\ got.success THEN 200 ELSE 500]]
    /\ UNCHANGED <<storeVars, shutdown, cleanupDue, variant, sockState, sockConv, req, emits,
                   justDone, http, streamVars>>

AudioNext ==
    \/ \E r \in ReqIds, a \in AudioInputs : PostProcess(r, a)
    \/ \E r \in ReqIds : Transcribed(r)
    \/ \E r \in ReqIds, outcome \in Outcomes : ProcessSettles(r, outcome, ReplyText(r))

SpecAudio == AudioInit /\ [][AudioNext]_vars

-----------------------------------------------------------------------------
(* OpenRouterService.streamMessage (lines 138-199; 440-502 and 724-785 are *)
(* the same code) and the upstream response stream it listens to.          *)
(*                                                                         *)
(* The upstream body is a sequence of lines, each ended by "\n".  It       *)
(* arrives in chunks whose boundaries are the transport's: a chunk holds   *)
(* whole lines and, at either end, a part of a line.  A text is a sequence *)
(* of symbols; the symbol "[DONE]" stands for that substring.              *)

MaxLines == 3

Fragments == { <<"a">>, <<"b">>, <<>>, <<"[DONE]">> }

\* the lines an upstream may send
DataLine(f) == [kind |-> "data", content |-> f]     \* data: {"choices":[{"delta":{"content":f}}]}
RoleLine    == [kind |-> "role", content |-> <<>>]  \* data: {"choices":[{"delta":{"role":"assistant"}}]}
DoneLine    == [kind |-> "done", content |-> <<>>]  \* data: [DONE]
BlankLine   == [kind |-> "blank", content |-> <<>>] \* the empty line between two events
CommentLine == [kind |-> "comment", content |-> <<>>] \* : OPENROUTER PROCESSING
GarbageLine == [kind |-> "garbage", content |-> <<>>] \* data: {"choices":[{"del

Lines == {DataLine(f) : f \in Fragments}
            \cup {RoleLine, DoneLine, BlankLine, CommentLine, GarbageLine}

Scripts == UNION {[1..n -> Lines] : n \in 0..MaxLines}

\* one element of chunk.toString().split('\n'): a whole line, or the first
\* part ("head") or a later part ("tail") of a line the chunk boundary cut
Piece(line, part) == [line |-> line, part |-> part]

\* line.startsWith('data: ')   (a head is cut after the marker)
StartsWithData(p) ==
    /\ p.part # "tail"
    /\ p.line.kind \in {"data", "role", "done", "garbage"}

\* line.includes('[DONE]')
IncludesDone(p) ==
    /\ p.part = "whole"
    /\ \/ p.line.kind = "done"
       \/ p.line.kind = "data" /\ \E i \in 1..Len(p.line.content) : p.line.content[i] = "[DONE]"

\* JSON.parse(line.slice(6)) returns (it throws on anything but a whole record)
JsonParses(p) == p.part = "whole" /\ p.line.kind \in {"data", "role"}

\* data.choices[0]?.delta?.content
DeltaContent(p) == IF p.line.kind = "data" THEN p.line.content ELSE Undefined

Call(cb, arg) == [cb |-> cb, arg |-> arg]

\* the body of the for loop of the data handler (lines 165-177), on the
\* pair acc = [full |-> fullResponse, calls |-> the callbacks invoked]
OnLine(acc, p) ==
    IF StartsWithData(p) /\ ~IncludesDone(p)
    THEN IF JsonParses(p) /\ Truthy(DeltaContent(p))
         THEN [full  |-> acc.full \o DeltaContent(p),
               calls |-> Append(acc.calls, Call("onChunk", DeltaContent(p)))]
         ELSE acc
    ELSE acc

\* the data handler (lines 161-179): the loop over the pieces of one chunk
RECURSIVE OnData(_, _)
OnData(acc, pieces) ==
    IF pieces = <<>> THEN acc
    ELSE OnData(OnLine(acc, Head(pieces)), Tail(pieces))

\* the end handler (lines 181-188)
OnEnd(acc) ==
    [full |-> acc.full, calls |-> Append(acc.calls, Call("onComplete", acc.full))]

\* a wrong error handler: it only logs
OnStreamErrorSilent(acc) == acc

\* a wrong error handler: it also completes with what has arrived
OnStreamErrorCompletes(acc) ==
    [full |-> acc.full,
     calls |-> acc.calls \o <<Call("onError", <<>>), Call("onComplete", acc.full)>>]

\* the error handler (lines 190-193)
OnStreamError(acc) ==
    [full |-> acc.full, calls |-> Append(acc.calls, Call("onError", <<>>))]

\* the catch block (lines 195-198)
OnInitError(acc) ==
    [full |-> acc.full, calls |-> Append(acc.calls, Call("onError", <<>>))]

\* the pieces of the chunk that brings k more line ends and, when cut, a
\* part of the line after them
ChunkPieces(k, cut) ==
    [i \in 1..(k + IF cut THEN 1 ELSE 0) |->
        Piece(sScript[sPos + i],
              IF i <= k
              THEN (IF i = 1 /\ sCut THEN "tail" ELSE "whole")
              ELSE (IF i = 1 /\ sCut THEN "tail" ELSE "head"))]

StreamConv == "c1"

(* The /stream route (src/unnamed/part_001 lines 228-292) is the caller of *)
(* streamMessage: its three callbacks write to the HTTP response.          *)

\* the response as the callbacks of the route see it
Res == [isComplete |-> isComplete, out |-> resOut, ended |-> resEnded, late |-> resLate]

\* res.write(`data: ...`): nothing goes out once res.end() was called or the
\* connection is gone; a call made after res.end() is kept in `late`
resWrite(res, type, content, connected) ==
    IF res.ended THEN [res EXCEPT !.late = TRUE]
    ELSE IF ~connected THEN res
    ELSE [res EXCEPT !.out = Append(@, [type |-> type, content |-> content])]

\* res.end()
resEnd(res) == [res EXCEPT !.ended = TRUE]

\* onChunk of the route (lines 253-260)
RouteOnChunk(res, chunk, connected) ==
    IF ~res.isComplete THEN resWrite(res, "chunk", chunk, connected) ELSE res

\* onComplete of the route (lines 261-268): it forwards result.conversationId
RouteOnComplete(res, connected) ==
    resEnd(resWrite([res EXCEPT !.isComplete = TRUE], "complete", <<StreamConv>>, connected))

\* onError of the route (lines 269-276)
RouteOnError(res, connected) ==
    resEnd(resWrite([res EXCEPT !.isComplete = TRUE], "error", <<"Streaming failed">>,
                    connected))

\* the handler of req.on('close') (lines 280-283)
RouteOnClose(res) == resEnd([res EXCEPT !.isComplete = TRUE])

\* streamMessage calls the callbacks it was given: the route's run inside it
RECURSIVE Deliver(_, _, _)
Deliver(res, cs, connected) ==
    IF cs = <<>> THEN res
    ELSE LET c == Head(cs)
             next == CASE c.cb = "onChunk" -> RouteOnChunk(res, c.arg, connected)
                       [] c.cb = "onComplete" -> RouteOnComplete(res, connected)
                       [] OTHER -> RouteOnError(res, connected)
         IN Deliver(next, Tail(cs), connected)

\* the response after streamMessage has made the calls that newCalls adds
RouteTakes(newCalls) ==
    LET res == Deliver(Res, SubSeq(newCalls, Len(calls) + 1, Len(newCalls)), client = "open")
    IN /\ isComplete' = res.isComplete
       /\ resOut' = res.out
       /\ resEnded' = res.ended
       /\ resLate' = res.late

\* req.on('close') is registered after `await streamMessage(...)` (line 280),
\* that is once client.post has settled and streamMessage has returned; a
\* request the route refused returned before that line
closeListener == sPhase \notin {"requesting", "refused"}

\* the `message` field of the body of a /stream request
StreamInputs == ChatInputs(1)

StreamInit ==
    /\ conversations = (StreamConv :> [messages |-> <<>>, createdAt |-> 0, lastAccessed |-> 0])
    /\ now = 0
    /\ lastOp = NoOp
    /\ appended = [id \in ConvIds |-> <<>>]
    /\ evicted = {}
    /\ ChatIdle
    /\ sPhase = "idle"
    /\ sMessage = <<>>
    /\ sScript \in Scripts
    /\ sPos = 0
    /\ sCut = FALSE
    /\ fullResponse = <<>>
    /\ calls = <<>>
    /\ isComplete = FALSE
    /\ resOut = <<>>
    /\ resEnded = FALSE
    /\ resLate = FALSE
    /\ client = "open"

Acc == [full |-> fullResponse, calls |-> calls]

\* router.post('/stream') up to `await streamMessage(...)` -> client.post
\* (part_001 lines 228-249): the only test of the message is `!message`
PostStream(m) ==
    /\ sPhase = "idle"
    /\ sMessage' = m.text
    /\ sPhase' = IF m.falsy THEN "refused" ELSE "requesting"
    /\ UNCHANGED <<storeVars, chatVars, sScript, sPos, sCut, fullResponse, calls,
                   isComplete, resOut, resEnded, resLate, client>>

\* await this.client.post(...) rejects: the catch block
PostRejects ==
    /\ sPhase = "requesting"
    /\ sPhase' = "rejected"
    /\ fullResponse' = OnInitError(Acc).full
    /\ calls' = OnInitError(Acc).calls
    /\ RouteTakes(OnInitError(Acc).calls)
    /\ UNCHANGED <<storeVars, chatVars, sMessage, sScript, sPos, sCut, client>>

\* it resolves: the three handlers are registered
PostResolves ==
    /\ sPhase = "requesting"
    /\ sPhase' = "streaming"
    /\ UNCHANGED <<storeVars, chatVars, sMessage, sScript, sPos, sCut, fullResponse, calls,
                   isComplete, resOut, resEnded, resLate, client>>

\* a chunk arrives
Data(k, cut) ==
    /\ sPhase = "streaming"
    /\ sPos + k <= Len(sScript)
    /\ cut => sPos + k < Len(sScript)
    /\ k >= 1 \/ cut
    /\ fullResponse' = OnData(Acc, ChunkPieces(k, cut)).full
    /\ calls' = OnData(Acc, ChunkPieces(k, cut)).calls
    /\ sPos' = sPos + k
    /\ sCut' = cut
    /\ RouteTakes(OnData(Acc, ChunkPieces(k, cut)).calls)
    /\ UNCHANGED <<storeVars, chatVars, sPhase, sMessage, sScript, client>>

\* the body is complete: 'end'
End ==
    /\ sPhase = "streaming"
    /\ sPos = Len(sScript)
    /\ ~sCut
    /\ sPhase' = "ended"
    /\ fullResponse' = OnEnd(Acc).full
    /\ calls' = OnEnd(Acc).calls
    /\ RouteTakes(OnEnd(Acc).calls)
    /\ UNCHANGED <<storeVars, chatVars, sMessage, sScript, sPos, sCut, client>>

\* the transport fails: 'error' (a stream emits no 'end' after it)
StreamError ==
    /\ sPhase = "streaming"
    /\ sPhase' = "failed"
    /\ fullResponse' = OnStreamError(Acc).full
    /\ calls' = OnStreamError(Acc).calls
    /\ RouteTakes(OnStreamError(Acc).calls)
    /\ UNCHANGED <<storeVars, chatVars, sMessage, sScript, sPos, sCut, client>>

\* the caller goes away: req emits 'close', and the handler of lines 280-283
\* runs when it has been registered by then.  Nothing here reaches the
\* upstream response: its 'data', 'end' and 'error' handlers stay attached.
Close ==
    /\ sPhase # "idle"
    /\ client = "open"
    /\ client' = IF sPhase \in {"requesting", "streaming"} THEN "cancelled" ELSE "left"
    /\ LET res == IF closeListener THEN RouteOnClose(Res) ELSE Res
       IN /\ isComplete' = res.isComplete
          /\ resOut' = res.out
          /\ resEnded' = res.ended
          /\ resLate' = res.late
    /\ UNCHANGED <<storeVars, chatVars, sPhase, sMessage, sScript, sPos, sCut, fullResponse,
                   calls>>

StreamNext ==
    \/ \E m \in StreamInputs : PostStream(m)
    \/ PostRejects
    \/ PostResolves
    \/ \E k \in 0..MaxLines, cut \in BOOLEAN : Data(k, cut)
    \/ End
    \/ StreamError
    \/ Close

SpecStream == StreamInit /\ [][StreamNext]_vars

-----------------------------------------------------------------------------
(* The claims.                                                             *)

Min(a, b) == IF a < b THEN a ELSE b

\* the n most recent elements of s, oldest first
MostRecent(s, n) ==
    LET m == Min(n, Len(s)) IN [i \in 1..m |-> s[Len(s) - m + i]]

\* C1: whatever sequence of addMessage calls a session has taken, its stored
\* history is never longer than maxMessagesPerConversation and is exactly the
\* most recent maxMessagesPerConversation messages appended to it, in the
\* order they were appended.
C1_HistoryIsMostRecent ==
    \A id \in DOMAIN conversations :
        /\ Len(conversations[id].messages) <= maxMessagesPerConversation
        /\ conversations[id].messages = MostRecent(appended[id], maxMessagesPerConversation)

\* a session that has taken more appends than it keeps
C1_Witness ==
    \E id \in DOMAIN conversations :
        /\ Len(appended[id]) > maxMessagesPerConversation
        /\ lastOp.op = "add" /\ lastOp.id = id

\* C2: addMessage on an id that has no session does not fail: it creates the
\* session, appends the message and returns it, and the history is then
\* exactly that one message.
C2_AddCreatesOnDemand ==
    (lastOp.op = "add" /\ ~lastOp.existed) =>
        /\ ~lastOp.threw
        /\ lastOp.returned = "message"
        /\ lastOp.id \in DOMAIN conversations
        /\ Len(conversations[lastOp.id].messages) = 1

\* C3: a sweep pass removes exactly the sessions whose now - lastAccessed is
\* greater than conversationExpiry when it runs, and leaves the others as
\* they were.
C3_SweepRemovesExactlyExpired ==
    [][ lastOp'.op = "sweep" =>
          /\ DOMAIN conversations' =
                {id \in DOMAIN conversations :
                    now - conversations[id].lastAccessed <= conversationExpiry}
          /\ \A id \in DOMAIN conversations' : conversations'[id] = conversations[id]
      ]_vars

\* a sweep that removed one session and kept another
C3_Witness ==
    /\ lastOp.op = "sweep"
    /\ lastOp.removed # {}
    /\ DOMAIN conversations # {}

\* C4: at most one upstream call is in flight for a session at any instant.
C4_AtMostOneInFlight ==
    \A c \in ConvIds :
        Cardinality({r \in ReqIds : req[r].pc = "awaiting" /\ req[r].conv = c}) <= 1

\* the callbacks that end a streamMessage call
Terminals == {i \in 1..Len(calls) : calls[i].cb \in {"onComplete", "onError"}}

\* C5: a streamMessage call invokes at most one of onComplete and onError, at
\* most once, and exactly one of them once its upstream call has failed at
\* the start, failed mid-stream or ended.
C5_ExactlyOneTerminal ==
    /\ Cardinality(Terminals) <= 1
    /\ sPhase \in {"rejected", "ended", "failed"} => Cardinality(Terminals) = 1

\* a call whose stream failed after a fragment had been delivered
C5_Witness ==
    /\ sPhase = "failed"
    /\ Len(calls) >= 2
    /\ calls[1].cb = "onChunk"

\* the records carry fragments f1..fn (each a text increment, so not empty)
\* and the terminal sentinel follows them
FragmentScript(sc) ==
    /\ Len(sc) >= 1
    /\ sc[Len(sc)] = DoneLine
    /\ \A i \in 1..(Len(sc) - 1) : sc[i].kind = "data" /\ sc[i].content # <<>>

RECURSIVE Concat(_, _)
Concat(sc, n) == IF n = 0 THEN <<>> ELSE Concat(sc, n - 1) \o sc[n].content

\* C6: for records carrying f1..fn followed by the sentinel, onChunk is called
\* n times with f1..fn in order and then onComplete once with f1+...+fn.
C6_FragmentsThenComplete ==
    (sPhase = "ended" /\ FragmentScript(sScript)) =>
        calls = [i \in 1..Len(sScript) |->
                    IF i < Len(sScript)
                    THEN Call("onChunk", sScript[i].content)
                    ELSE Call("onComplete", Concat(sScript, Len(sScript) - 1))]

\* C7: when the handling of a chat message fails, the history of its
\* conversation is what it was before the message arrived.
C7_FailureLeavesHistory ==
    \A r \in ReqIds :
        (justDone = r /\ req[r].upstream \in Outcomes \ {"ok"}) =>
            History(conversations, req[r].conv) = req[r].before

\* C8: when a chat request succeeds, the last two entries of the history are
\* the user message and then an assistant message holding the upstream text.
C8_SuccessAppendsUserThenReply ==
    \A r \in ReqIds :
        (justDone = r /\ req[r].upstream = "ok" /\ req[r].result = "chat_response") =>
            LET h == History(conversations, req[r].conv)
            IN /\ Len(h) >= 2
               /\ h[Len(h) - 1].role = "user"
               /\ h[Len(h) - 1].content = req[r].text
               /\ h[Len(h)].role = "assistant"
               /\ h[Len(h)].content = req[r].reply

\* C9: an assistant message is appended only for a request whose upstream
\* call succeeded.
C9_AssistantOnlyOnSuccess ==
    \A r \in ReqIds : req[r].assistantAppended => req[r].upstream = "ok"

AssistantMessages(h) == SelectSeq(h, LAMBDA m : m.role = "assistant")

\* the texts streamMessage has handed to onChunk, joined in order
Delivered ==
    LET chunks == SelectSeq(calls, LAMBDA c : c.cb = "onChunk")
    IN Concat([i \in 1..Len(chunks) |-> [content |-> chunks[i].arg]], Len(chunks))

\* C11: when a streaming relay has ended successfully, the session holds
\* exactly one new assistant message, and its content is the concatenation of
\* the fragments that were delivered.
C11_StreamEndAppendsAssistant ==
    (sPhase = "ended" /\ Delivered # <<>>) =>
        LET a == AssistantMessages(History(conversations, StreamConv))
        IN /\ Len(a) = 1
           /\ a[1].content = Delivered

\* C12: once the caller has cancelled a running relay, a terminal onError (or
\* onCancelled) has been raised and is the last callback there is (nothing
\* is consumed from the upstream after it), and the session holds no partial
\* assistant message.
C12_CancelStopsRelay ==
    client = "cancelled" =>
        /\ Len(calls) >= 1
        /\ calls[Len(calls)].cb \in {"onError", "onCancelled"}
        /\ AssistantMessages(History(conversations, StreamConv)) = <<>>

\* a record that arrived whole and carries a text increment
WellFormed(p) == p.part = "whole" /\ p.line.kind = "data" /\ p.line.content # <<>>

\* the onChunk calls that deliver the well-formed records among pieces, in order
Increments(pieces) ==
    LET sel == SelectSeq(pieces, WellFormed)
    IN [i \in 1..Len(sel) |-> Call("onChunk", sel[i].line.content)]

\* C13: a chunk of a running stream adds no onError and no onComplete, whatever
\* malformed or partial records it brings; and a chunk that arrives after a
\* malformed record, or that begins with the rest of a partial one, adds
\* exactly one onChunk per well-formed record in it, in arrival order.
C13_MalformedSkipped ==
    [][ (sPhase = "streaming" /\ sPhase' = "streaming") =>
          /\ Len(calls') >= Len(calls)
          /\ \A i \in (Len(calls) + 1)..Len(calls') : calls'[i].cb = "onChunk"
          /\ ((\E j \in 1..sPos : sScript[j].kind = "garbage") \/ sCut) =>
                calls' = calls \o Increments(ChunkPieces(sPos' - sPos, sCut'))
      ]_vars

\* C14: getConversation on an id that has a session sets that session's
\* lastAccessed to the current time, changes nothing else and returns its
\* messages; on an id without a session it returns null and changes nothing.
C14_GetTouchesOrNotFound ==
    [][ lastOp'.op = "get" =>
          LET id == lastOp'.id
          IN IF id \in DOMAIN conversations
             THEN /\ lastOp'.returned = "array"
                  /\ DOMAIN conversations' = DOMAIN conversations
                  /\ conversations'[id].lastAccessed = now
                  /\ conversations'[id].messages = conversations[id].messages
                  /\ conversations'[id].createdAt = conversations[id].createdAt
                  /\ \A j \in DOMAIN conversations \ {id} :
                         conversations'[j] = conversations[j]
             ELSE /\ lastOp'.returned = "null"
                  /\ conversations' = conversations
      ]_vars

\* a read of a session that holds messages, later than its creation
C14_Witness ==
    /\ lastOp.op = "get" /\ lastOp.existed
    /\ conversations[lastOp.id].messages # <<>>
    /\ conversations[lastOp.id].createdAt < now
    /\ conversations[lastOp.id].lastAccessed = now

\* C15: createConversation keeps every other session; on an id whose session
\* exists and is not expired it keeps that session (its messages and its
\* createdAt), and otherwise the id gets a new empty session with
\* createdAt = lastAccessed = now.
C15_CreateIdempotent ==
    [][ lastOp'.op = "create" =>
          LET id == lastOp'.id
          IN /\ DOMAIN conversations' = DOMAIN conversations \cup {id}
             /\ \A j \in DOMAIN conversations \ {id} : conversations'[j] = conversations[j]
             /\ IF /\ id \in DOMAIN conversations
                   /\ ~(now - conversations[id].lastAccessed > conversationExpiry)
                THEN /\ conversations'[id].messages = conversations[id].messages
                     /\ conversations'[id].createdAt = conversations[id].createdAt
                ELSE conversations'[id] =
                        [messages |-> <<>>, createdAt |-> now, lastAccessed |-> now]
      ]_vars

\* C16: getConversation on a session whose now - lastAccessed exceeds
\* conversationExpiry, and that no sweep has removed yet, returns null.
C16_ExpiredReadNotFound ==
    [][ ( /\ lastOp'.op = "get"
          /\ lastOp'.id \in DOMAIN conversations
          /\ now - conversations[lastOp'.id].lastAccessed > conversationExpiry )
        => lastOp'.returned = "null" ]_vars

\* C17: deleteConversation removes the session of its id and no other,
\* returns true exactly when there was one, leaves the store as it was when
\* there was none, and a getConversation of the id then returns null.
C17_DeleteRemoves ==
    [][ lastOp'.op = "delete" =>
          LET id == lastOp'.id
          IN /\ lastOp'.returned = (IF id \in DOMAIN conversations THEN "true" ELSE "false")
             /\ DOMAIN conversations' = DOMAIN conversations \ {id}
             /\ \A j \in DOMAIN conversations' : conversations'[j] = conversations[j]
             /\ id \notin DOMAIN conversations => conversations' = conversations
             /\ getConversation(conversations', id, now').result.kind = "null"
      ]_vars

\* a delete that removed a session holding messages and left another one
C17_Witness ==
    /\ lastOp.op = "delete" /\ lastOp.existed /\ lastOp.returned = "true"
    /\ lastOp.id \in evicted
    /\ DOMAIN conversations # {}

\* C18: getStats returns the number of sessions and the number of messages
\* they hold together, and leaves every session as it was, lastAccessed
\* included.
C18_StatsReadOnly ==
    [][ lastOp'.op = "stats" =>
          /\ conversations' = conversations
          /\ lastOp'.returned.totalConversations = Cardinality(DOMAIN conversations)
          /\ lastOp'.returned.totalMessages =
                Cardinality(UNION {{<<id, i>> : i \in 1..Len(conversations[id].messages)} :
                                      id \in DOMAIN conversations})
      ]_vars

\* statistics of two sessions holding three messages, one of them not
\* accessed since an earlier time
C18_Witness ==
    /\ lastOp.op = "stats"
    /\ lastOp.returned.totalConversations = 2
    /\ lastOp.returned.totalMessages = 3
    /\ \E id \in DOMAIN conversations : conversations[id].lastAccessed < now

\* C19: createConversation on an id whose earlier session was removed, by
\* deleteConversation or by the sweep, while it held messages gives the id an
\* empty history with createdAt = lastAccessed = now.
C19_ReuseAfterEviction ==
    [][ ( /\ lastOp'.op = "create"
          /\ lastOp'.id \in evicted
          /\ lastOp'.id \notin DOMAIN conversations )
        => conversations'[lastOp'.id] =
              [messages |-> <<>>, createdAt |-> now, lastAccessed |-> now] ]_vars

\* an id created again, at a later time, after its session was removed
C19_Witness ==
    /\ lastOp.op = "create" /\ ~lastOp.existed
    /\ lastOp.id \in evicted
    /\ now > 0
    /\ conversations[lastOp.id].messages = <<>>
    /\ conversations[lastOp.id].createdAt = now

\* the condition the route reports for each cause of failure
Surfaced(outcome) ==
    CASE outcome = "401" -> "AUTHENTICATION_ERROR"
      [] outcome = "429" -> "RATE_LIMIT_ERROR"
      [] outcome = "timeout" -> "TIMEOUT_ERROR"
      [] outcome = "5xx" -> "SERVICE_UNAVAILABLE"

\* C20: a request whose upstream call failed is answered as a failure with
\* the condition of its cause: 401 as unauthorized, 429 as rate-limited, a
\* timeout as timeout and a 5xx as unavailable.
C20_CauseCarriedThrough ==
    \A r \in ReqIds :
        (http[r].pc = "done" /\ http[r].upstream \in Outcomes \ {"ok"}) =>
            /\ ~http[r].success
            /\ http[r].code = Surfaced(http[r].upstream)


\* C21: no failure is retried: every request makes at most one upstream
\* completion call, a request that was passed upstream made exactly one
\* whatever the outcome (401, 429, timeout, 5xx), and a failed call reaches
\* the caller of sendMessage as a failure that carries the error text of its
\* cause, never as a success.
C21_NoInternalRetry ==
    \A r \in ReqIds :
        /\ http[r].posts <= 1
        /\ http[r].pc = "awaiting" => http[r].posts = 1
        /\ (http[r].pc = "done" /\ http[r].upstream # "-") => http[r].posts = 1
        /\ (http[r].pc = "done" /\ http[r].upstream \in Outcomes \ {"ok"}) =>
              /\ http[r].engine \in {"failure", "threw"}
              /\ http[r].engineError = ErrorText(variant, http[r].upstream)

C21_Witness ==
    \E r \in ReqIds :
        /\ http[r].pc = "done"
        /\ http[r].upstream = "429"
        /\ http[r].posts = 1
        /\ http[r].engine = "threw"


\* a message that is empty, not a string, or longer than 4000 characters
Invalid(m) == m.falsy \/ ~m.isString \/ m.length > MaxMessageLength

InvalidTexts == {m.text : m \in {x \in UNION {ChatInputs(r) : r \in ReqIds} : Invalid(x)}}

\* C22: an invalid message is rejected on every inbound path with no upstream
\* call and no change to a history: a /stream request that carries one is
\* refused and streamMessage is never entered, a POST /message request that
\* carries one is answered 400 with no client.post, and a chat_message that
\* carries one ends as invalid with nothing appended.
C22_InvalidRejectedEverywhere ==
    /\ sMessage \in InvalidTexts => (sPhase = "refused" /\ calls = <<>>)
    /\ \A r \in ReqIds :
          (http[r].pc # "new" /\ http[r].text \in InvalidTexts) =>
              (http[r].pc = "done" /\ http[r].status = 400 /\ http[r].posts = 0)
    /\ \A r \in ReqIds :
          (req[r].pc # "new" /\ req[r].text \in InvalidTexts) =>
              /\ req[r].pc = "done" /\ req[r].result = "invalid"
              /\ req[r].upstream = "-" /\ ~req[r].userAppended


\* the role and content of the entries of a history
AsPrompt(h) == [i \in 1..Len(h) |-> [role |-> h[i].role, content |-> h[i].content]]

\* C23: the prompt posted upstream for a chat message is a system prompt, then
\* the most recent K messages (for some K of 1..maxMessagesPerConversation) of
\* the history the conversation had when the message arrived, then the new
\* user message.
C23_PromptIsSystemHistoryUser ==
    \A r \in ReqIds :
        req[r].prompt # <<>> =>
            LET p == req[r].prompt
            IN /\ Len(p) >= 2
               /\ p[1].role = "system"
               /\ p[Len(p)] = [role |-> "user", content |-> req[r].text]
               /\ \E K \in 1..maxMessagesPerConversation :
                     SubSeq(p, 2, Len(p) - 1) = AsPrompt(MostRecent(req[r].before, K))


\* C24: the sweep timer is stopped by the shutdown: once the SIGTERM handler
\* has run, no step is a pass of the periodic sweep.
C24_NoSweepAfterShutdown == [][shutdown => ~ChatSweep]_vars


\* C25: what getConversation and createConversation return is a copy or a read
\* view: a change their caller makes to the returned value leaves the stored
\* sessions as they were.
C25_ReturnedHistoryIsDetached ==
    [][lastOp'.op = "callerPush" => conversations' = conversations]_vars


\* C26: on a connected socket a valid chat_message is passed upstream, and when
\* the upstream call succeeds the handler ends with the user message and the
\* assistant message appended to the socket's conversation and a chat_response
\* emitted, also when the sweep removed that conversation before the message
\* arrived or while it was being handled.  (What the assistant message holds
\* is the subject of C8.)
C26_ValidMessageIsAnswered ==
    \A r \in ReqIds :
        /\ (req[r].pc = "done" /\ req[r].text \notin InvalidTexts) => req[r].upstream # "-"
        /\ (req[r].pc = "done" /\ req[r].upstream = "ok") =>
              /\ req[r].userAppended /\ req[r].assistantAppended
              /\ req[r].result = "chat_response"
              /\ \E i \in 1..Len(emits[req[r].sock]) :
                    /\ emits[req[r].sock][i].event = "chat_response"
                    /\ emits[req[r].sock][i].messageId = r


\* C27: assistant messages are appended in order: when the handler of a chat
\* message has appended the reply, the reply is the last message of the
\* conversation and the message right before it is the user message it
\* answers, also when other chat messages of the same conversation are being
\* handled.
C27_ReplyFollowsItsUserMessage ==
    \A r \in ReqIds :
        (justDone = r /\ req[r].assistantAppended) =>
            LET h == History(conversations, req[r].conv)
            IN /\ Len(h) >= 2
               /\ h[Len(h)].role = "assistant"
               /\ h[Len(h) - 1].role = "user"
               /\ h[Len(h) - 1].content = req[r].text


\* the positions in what socket s was sent of the events named in evs that
\* carry messageId r
EventsOf(s, r, evs) ==
    {i \in 1..Len(emits[s]) : emits[s][i].event \in evs /\ emits[s][i].messageId = r}

\* C28: every processing_start is eventually followed by exactly one of
\* chat_response or error with the same messageId: there is never more than
\* one of them, each comes after a processing_start of that message (so no
\* chat_response is emitted without one), and once processing_start has been
\* emitted one of them is eventually emitted.
C28_StartIsAnsweredOnce ==
    /\ [](\A s \in Sockets, r \in ReqIds :
            /\ Cardinality(EventsOf(s, r, {"chat_response", "error"})) <= 1
            /\ \A i \in EventsOf(s, r, {"chat_response", "error"}) :
                  \E j \in EventsOf(s, r, {"processing_start"}) : j < i)
    /\ \A s \in Sockets, r \in ReqIds :
          (EventsOf(s, r, {"processing_start"}) # {})
              ~> (Cardinality(EventsOf(s, r, {"chat_response", "error"})) = 1)

C28_Witness ==
    \E s \in Sockets, r, q \in ReqIds :
        /\ r # q
        /\ EventsOf(s, r, {"processing_start"}) # {}
        /\ EventsOf(s, r, {"chat_response"}) # {}
        /\ EventsOf(s, q, {"processing_start"}) # {}
        /\ EventsOf(s, q, {"error"}) # {}
        /\ req[q].upstream = "timeout"


\* what streamMessage does with the whole record sequence arriving as one chunk
InOneChunk ==
    OnEnd(OnData([full |-> <<>>, calls |-> <<>>],
                 [i \in 1..Len(sScript) |-> Piece(sScript[i], "whole")]))

\* C29: the fragments delivered depend only on the record sequence, not on how
\* it is cut into chunks: when the stream has ended, the calls made (the
\* onChunk arguments in order, then onComplete) and fullResponse are those of
\* the same records arriving as one chunk.
C29_ChunkingIndependent ==
    sPhase = "ended" =>
        /\ calls = InOneChunk.calls
        /\ fullResponse = InOneChunk.full


\* C30: in the /stream route at most one terminal event (complete or error) is
\* written per request, it is the last thing written, and the route never
\* writes to the response after having ended it, also when the client goes
\* away before the upstream stream has finished.
C30_NoWriteAfterEnd ==
    /\ Cardinality({i \in 1..Len(resOut) : resOut[i].type \in {"complete", "error"}}) <= 1
    /\ \A i \in 1..Len(resOut) :
          resOut[i].type \in {"complete", "error"} => i = Len(resOut)
    /\ ~resLate


\* C31: processAudio reports success only when the upstream completion for
\* the transcribed text succeeded: a request whose upstream call failed gets
\* a failure from processAudio, returned or thrown, and is not answered 200.
C31_AudioSuccessOnlyOnUpstreamSuccess ==
    \A r \in ReqIds :
        (audio[r].pc = "done" /\ audio[r].upstream \in Outcomes \ {"ok"}) =>
            /\ audio[r].result \in {"failure", "threw"}
            /\ audio[r].status # 200


\* C32: the disconnect handler does not delete the socket's conversation
\* itself, the scheduled cleanup does not run before its delay has elapsed,
\* and after a disconnect the conversation is eventually absent from the
\* store.
C32_DisconnectCleansUpLater ==
    /\ [][\A s \in Sockets :
            /\ (sockState[s] = "connected" /\ sockState'[s] = "disconnected") =>
                  conversations' = conversations
            /\ (cleanupDue[s] >= 0 /\ cleanupDue'[s] < 0) =>
                  /\ now >= cleanupDue[s]
                  /\ sockConv[s] \notin DOMAIN conversations']_vars
    /\ \A s \in Sockets :
          (sockState[s] = "disconnected") ~> (sockConv[s] \notin DOMAIN conversations)

C32_Witness ==
    \E s \in Sockets, r \in ReqIds :
        /\ sockState[s] = "disconnected"
        /\ cleanupDue[s] < 0
        /\ req[r].sock = s
        /\ req[r].assistantAppended
        /\ sockConv[s] \notin DOMAIN conversations


\* C33: sessions are isolated: createConversation, getConversation, addMessage
\* and deleteConversation on one id neither create, remove nor change the
\* session of any other id, and a sweep pass creates no session and leaves
\* every session it keeps exactly as it was.
C33_SessionsIsolated ==
    [][ /\ lastOp'.op \in {"create", "get", "add", "delete"} =>
              \A j \in ConvIds \ {lastOp'.id} :
                  /\ j \in DOMAIN conversations' <=> j \in DOMAIN conversations
                  /\ j \in DOMAIN conversations => conversations'[j] = conversations[j]
        /\ lastOp'.op = "sweep" =>
              \A j \in DOMAIN conversations' :
                  /\ j \in DOMAIN conversations
                  /\ conversations'[j] = conversations[j]
      ]_vars

C33_Witness ==
    /\ lastOp.op = "sweep"
    /\ lastOp.removed # {}
    /\ \E j \in DOMAIN conversations :
          /\ conversations[j].messages # <<>>
          /\ conversations[j].lastAccessed < now


\* C34: every stored session has createdAt <= lastAccessed <= now, and no
\* store operation lowers the lastAccessed of a session.
C34_StampsOrdered ==
    /\ [](\A id \in DOMAIN conversations :
            /\ conversations[id].createdAt <= conversations[id].lastAccessed
            /\ conversations[id].lastAccessed <= now)
    /\ [][\A id \in DOMAIN conversations \cap DOMAIN conversations' :
            conversations'[id].lastAccessed >= conversations[id].lastAccessed]_vars

C34_Witness ==
    \E id \in DOMAIN conversations :
        /\ conversations[id].createdAt < conversations[id].lastAccessed
        /\ conversations[id].lastAccessed < now
        /\ conversations[id].messages # <<>>


\* h with its first k elements removed
DropFront(h, k) == SubSeq(h, k + 1, Len(h))

\* C35: a message is immutable once appended: across every store operation on
\* a session that stays in the store, the new history is the old one with
\* some messages removed from its front and at most one message added at its
\* end, so every message that remains keeps its role, content, timestamp and
\* id and its place in the order.
C35_AppendedMessagesImmutable ==
    [][\A id \in DOMAIN conversations \cap DOMAIN conversations' :
         LET old == conversations[id].messages
             new == conversations'[id].messages
         IN \E k \in 0..Len(old) :
               \/ new = DropFront(old, k)
               \/ /\ new # <<>>
                  /\ SubSeq(new, 1, Len(new) - 1) = DropFront(old, k)
                  /\ lastOp'.op = "add" /\ lastOp'.id = id
                  /\ new[Len(new)] = appended'[id][Len(appended'[id])] ]_vars

C35_Witness ==
    \E id \in DOMAIN conversations :
        /\ lastOp.op = "add" /\ lastOp.id = id /\ ~lastOp.threw
        /\ Len(appended[id]) = maxMessagesPerConversation + 1
        /\ conversations[id].messages = DropFront(appended[id], 1)
        /\ conversations[id].messages[1].timestamp < now


\* C36: sendMessage never rejects a request for lacking a conversation id: a
\* valid request is passed upstream with or without one, and when the
\* upstream call succeeds the result is a success that carries the supplied
\* id unchanged, or a generated id (none of the caller's) when none was
\* supplied.
C36_IdKeptOrGenerated ==
    \A r \in ReqIds :
        /\ (http[r].pc = "done" /\ http[r].text \notin InvalidTexts) => http[r].posts = 1
        /\ (http[r].pc = "done" /\ http[r].upstream = "ok") =>
              /\ http[r].engine = "success"
              /\ http[r].conv # NoId => http[r].engineConv = http[r].conv
              /\ http[r].conv = NoId =>
                    /\ http[r].engineConv = generateId
                    /\ http[r].engineConv \notin ConvIds \cup {NoId}

C36_Witness ==
    \E r, q \in ReqIds :
        /\ http[r].pc = "done" /\ http[r].upstream = "ok"
        /\ http[r].conv = NoId /\ http[r].engineConv = generateId
        /\ http[q].pc = "done" /\ http[q].upstream = "ok"
        /\ http[q].conv \in ConvIds /\ http[q].engineConv = http[q].conv

====
